---- MODULE Spec2Model ----
(***************************************************************************)
(* Model of the credential-blob patcher of Antigravity-Standalone:         *)
(* ProtoUtils (varint codec, wire scanner, field remover, field builder)   *)
(* and StateInjector (store adapter) of src/src/services/AuthService.ts,   *)
(* and the antigravity.switchAccount command of src/src/extension.ts that  *)
(* calls it.                                                               *)
(*                                                                         *)
(* Buffers are sequences of bytes (0..255); offsets are 0-based as in the  *)
(* source, so the byte at offset p of buffer b is b[p + 1].                *)
(***************************************************************************)
EXTENDS Integers, Sequences, FiniteSets, TLC

VARIABLES
    input,      \* the arguments handed to a ProtoUtils function
    output,     \* what the function returned, once it has been applied
    exists,     \* the store paths at which a file exists
    db,         \* db[path][key]: the ItemTable row of key in the store at path
    dbPath,     \* StateInjector.dbPath, the cached path ("null" when unset)
    pc,         \* pc[c]: where call c of injectTokenAndReload stands
    token,      \* token[c]: the TokenData call c was given
    path,       \* path[c]: the local dbPath of call c
    finalB64,   \* finalB64[c]: the text call c is about to write
    probe,      \* probe[c]: how many paths getDbPath of call c has probed
    seen,       \* history of call c: whether it read the credential row, the
                \* row as it was then, whether the read succeeded, the row
                \* the call wrote under the credential key, and the error
                \* injectTokenAndReload threw
    invoked,    \* number of injectTokenAndReload calls made so far
    cmd,        \* cmd[c]: the locals of the switchAccount command that made
                \* call c, and which messages it has shown
    index,      \* the account index file of DataManager
    sched,      \* the fields of SchedulerService and the timers it has set
    trig,       \* the history of TriggerService, its file and its calls
    ops         \* ops[o]: the locals of DataManager operation o

protoVars == <<input, output>>
storeVars == <<exists, db, dbPath>>
callVars == <<pc, token, path, finalB64, probe, seen, invoked>>
cmdVars == <<cmd, index>>
svcVars == <<sched, trig, ops>>
vars == <<input, output, exists, db, dbPath, pc, token, path, finalB64, probe, seen,
         invoked, cmd, index, sched, trig, ops>>

(***************************************************************************)
(* Wide unsigned integers.  The source computes varints with BigInt; the   *)
(* model keeps a value as two limbs, value = hi * Limb + lo, lo < Limb,    *)
(* so that timestamps such as 2^35 are represented exactly.                *)
(***************************************************************************)
Limb == 2 ^ 20

Big(n) == [hi |-> n \div Limb, lo |-> n % Limb]

\* Number(big) for values that index or measure a buffer
Num(v) == v.hi * Limb + v.lo

\* v >= 64n: the comparison made one bit too low
BigGE64(v) == v.hi > 0 \/ v.lo >= 64

\* v >= 128n
BigGE128(v) == v.hi > 0 \/ v.lo >= 128

\* v >> 7n computed on the low limb alone
Shr7LowLimb(v) == [hi |-> v.hi \div 128, lo |-> v.lo \div 128]

\* v >> 7n
Shr7(v) == [hi |-> v.hi \div 128,
            lo |-> (v.lo \div 128) + (v.hi % 128) * (Limb \div 128)]

\* result | (group << shift), group < 128, result < 2^shift
OrShift(result, group, shift) ==
    IF shift < 20
    THEN LET c == group * (2 ^ shift)
         IN  [hi |-> result.hi + (c \div Limb), lo |-> result.lo + (c % Limb)]
    ELSE [hi |-> result.hi + group * (2 ^ (shift - 20)), lo |-> result.lo]

\* tag & 7 (the low three bits survive the conversion to a 32-bit integer)
TagWireType(tag) == tag.lo % 8

\* tag >> 3: a signed shift of the tag converted to a 32-bit integer
TagFieldNum(tag) ==
    LET h == tag.hi % 4096
        u8 == h * (Limb \div 8) + (tag.lo \div 8)
    IN  IF h >= 2048 THEN u8 - 2 ^ 29 ELSE u8

Min(a, b) == IF a < b THEN a ELSE b

\* a slice that starts one byte late
subarrayLate(buffer, start, end) ==
    LET e == Min(end, Len(buffer))
        s == Min(start + 1, Len(buffer))
    IN  IF s >= e THEN <<>> ELSE SubSeq(buffer, s + 1, e)

\* Buffer.subarray(start, end): both ends are clamped to the buffer
subarray(buffer, start, end) ==
    LET e == Min(end, Len(buffer))
        s == Min(start, Len(buffer))
    IN  IF s >= e THEN <<>> ELSE SubSeq(buffer, s + 1, e)

(***************************************************************************)
(* ProtoUtils                                                              *)
(***************************************************************************)
RECURSIVE encodeVarint(_)
encodeVarint(v) ==
    IF BigGE128(v)
    THEN <<(v.lo % 128) + 128>> \o encodeVarint(Shr7(v))
    ELSE <<v.lo>>

RECURSIVE readVarintLoop(_, _, _, _)
readVarintLoop(buffer, pos, result, shift) ==
    IF pos < Len(buffer)
    THEN LET byte == buffer[pos + 1]
             r2 == OrShift(result, byte % 128, shift)
         IN  IF byte \div 128 = 0
             THEN [value |-> r2, newOffset |-> pos + 1]
             ELSE readVarintLoop(buffer, pos + 1, r2, shift + 7)
    ELSE [value |-> result, newOffset |-> pos]

\* readVarint with `pos++` placed after the test of the continuation bit, so
\* that the terminating byte is not counted
readVarintLateIncrement(buffer, offset) ==
    LET r == readVarintLoop(buffer, offset, Big(0), 0)
    IN  [r EXCEPT !.newOffset =
            IF r.newOffset > offset /\ buffer[r.newOffset] < 128
            THEN r.newOffset - 1 ELSE r.newOffset]

readVarint(buffer, offset) == readVarintLoop(buffer, offset, Big(0), 0)

\* skipField with the 32-bit case skipping eight bytes
skipFieldWide(buffer, offset, wireType) ==
    CASE wireType = 0 -> [threw |-> FALSE, off |-> readVarint(buffer, offset).newOffset]
      [] wireType = 1 -> [threw |-> FALSE, off |-> offset + 8]
      [] wireType = 2 -> LET r == readVarint(buffer, offset)
                         IN  [threw |-> FALSE, off |-> r.newOffset + Num(r.value)]
      [] wireType = 5 -> [threw |-> FALSE, off |-> offset + 8]
      [] OTHER -> [threw |-> TRUE, off |-> offset]

\* returns the next offset, or threw = TRUE for `throw new Error(Unknown wireType)`
skipField(buffer, offset, wireType) ==
    CASE wireType = 0 -> [threw |-> FALSE, off |-> readVarint(buffer, offset).newOffset]
      [] wireType = 1 -> [threw |-> FALSE, off |-> offset + 8]
      [] wireType = 2 -> LET r == readVarint(buffer, offset)
                         IN  [threw |-> FALSE, off |-> r.newOffset + Num(r.value)]
      [] wireType = 5 -> [threw |-> FALSE, off |-> offset + 4]
      [] OTHER -> [threw |-> TRUE, off |-> offset]

RECURSIVE removeFieldLoop(_, _, _, _)
removeFieldLoop(buffer, fieldNumToRemove, offset, chunks) ==
    IF offset < Len(buffer)
    THEN LET startOffset == offset
             r == readVarint(buffer, offset)
             wireType == TagWireType(r.value)
             fieldNum == TagFieldNum(r.value)
             sk == skipField(buffer, r.newOffset, wireType)
         IN  IF sk.threw
             THEN [threw |-> TRUE, buf |-> <<>>]
             ELSE IF fieldNum = fieldNumToRemove
                  THEN removeFieldLoop(buffer, fieldNumToRemove, sk.off, chunks)
                  ELSE removeFieldLoop(buffer, fieldNumToRemove, sk.off,
                                       chunks \o subarray(buffer, startOffset, sk.off))
    ELSE [threw |-> FALSE, buf |-> chunks]

removeField(buffer, fieldNumToRemove) ==
    removeFieldLoop(buffer, fieldNumToRemove, 0, <<>>)

encodeTag(fieldNum, wireType) == encodeVarint(Big(fieldNum * 8 + wireType))

\* the UTF-8 bytes of one code point (below 2^16)
Utf8Char(cp) ==
    IF cp < 128 THEN <<cp>>
    ELSE IF cp < 2048
         THEN <<192 + (cp \div 64), 128 + (cp % 64)>>
         ELSE <<224 + (cp \div 4096), 128 + ((cp \div 64) % 64), 128 + (cp % 64)>>

\* Buffer.from(str, 'utf8') of a string given as its code points
RECURSIVE Utf8(_)
Utf8(str) ==
    IF str = <<>> THEN <<>>
    ELSE IF Len(str) = 1 THEN Utf8Char(str[1])
    ELSE LET h == Len(str) \div 2
         IN  Utf8(SubSeq(str, 1, h)) \o Utf8(SubSeq(str, h + 1, Len(str)))

\* the code points of "Bearer"
Bearer == <<66, 101, 97, 114, 101, 114>>

\* a JavaScript string argument: defined = FALSE is `undefined`
Str(s) == [defined |-> TRUE, str |-> s]
Undefined == [defined |-> FALSE, str |-> <<>>]
Truthy(a) == a.defined /\ a.str # <<>>

\* a length-delimited sub-field whose length is written as one raw byte
LenDelimitedOneByte(fieldNum, bytes) ==
    encodeTag(fieldNum, 2) \o <<Len(bytes) % 256>> \o bytes

\* one length-delimited sub-field: tag, length of the bytes, the bytes
LenDelimited(fieldNum, bytes) ==
    encodeTag(fieldNum, 2) \o encodeVarint(Big(Len(bytes))) \o bytes

\* createOAuthField with the expiry written as a plain varint sub-field
createOAuthFieldFlatExpiry(accessToken, refreshToken, expiry) ==
    LET p1 == IF Truthy(accessToken)
              THEN LenDelimited(1, Utf8(accessToken.str)) ELSE <<>>
        p2 == LenDelimited(2, Utf8(Bearer))
        p3 == IF Truthy(refreshToken)
              THEN LenDelimited(3, Utf8(refreshToken.str)) ELSE <<>>
        p4 == encodeTag(4, 0) \o encodeVarint(expiry)
        oauthInfo == p1 \o p2 \o p3 \o p4
    IN  LenDelimited(6, oauthInfo)

createOAuthField(accessToken, refreshToken, expiry) ==
    LET p1 == IF Truthy(accessToken)
              THEN LenDelimited(1, Utf8(accessToken.str)) ELSE <<>>
        p2 == LenDelimited(2, Utf8(Bearer))
        p3 == IF Truthy(refreshToken)
              THEN LenDelimited(3, Utf8(refreshToken.str)) ELSE <<>>
        innerBuf == encodeTag(1, 0) \o encodeVarint(expiry)
        p4 == LenDelimited(4, innerBuf)
        oauthInfo == p1 \o p2 \o p3 \o p4
    IN  LenDelimited(6, oauthInfo)

(***************************************************************************)
(* Reference reading of the wire format, used to state the properties:     *)
(* a strict scanner that accepts a field only when all of its bytes lie    *)
(* inside the buffer.                                                      *)
(***************************************************************************)
\* the first offset p >= off whose byte has the continuation bit clear, or -1
RECURSIVE FirstTerminator(_, _)
FirstTerminator(B, off) ==
    IF off < 0 \/ off >= Len(B) THEN -1
    ELSE IF B[off + 1] < 128 THEN off
    ELSE FirstTerminator(B, off + 1)

MinOf(S) == CHOOSE x \in S : \A y \in S : x <= y

\* v * 128 + d
Mul128Add(v, d) ==
    LET l == v.lo * 128 + d
    IN  [hi |-> v.hi * 128 + (l \div Limb), lo |-> l % Limb]

\* value of the varint bytes B[from+1 .. to+1], low-order group first
RECURSIVE GroupsValue(_, _, _)
GroupsValue(B, from, to) ==
    IF from > to THEN [hi |-> 0, lo |-> 0]
    ELSE Mul128Add(GroupsValue(B, from + 1, to), B[from + 1] % 128)

StrictVarint(B, off) ==
    LET e == FirstTerminator(B, off)
    IN  IF e < 0
        THEN [ok |-> FALSE, value |-> [hi |-> 0, lo |-> 0], next |-> off]
        ELSE [ok |-> TRUE, value |-> GroupsValue(B, off, e), next |-> e + 1]

NoField(kind, off) ==
    [kind |-> kind, num |-> 0, wt |-> 0, start |-> off, body |-> off, end |-> off]

\* the field that starts at offset off, or the reason there is none
RefField(B, off) ==
    LET tag == StrictVarint(B, off)
        wt == Num(tag.value) % 8
        num == Num(tag.value) \div 8
        fld(body, end) ==
            IF end > Len(B) THEN NoField("TruncatedBuffer", off)
            ELSE [kind |-> "field", num |-> num, wt |-> wt, start |-> off,
                  body |-> body, end |-> end]
    IN  IF ~tag.ok THEN NoField("MalformedVarint", off)
        ELSE CASE wt = 0 -> LET v == StrictVarint(B, tag.next)
                            IN  IF v.ok THEN fld(tag.next, v.next)
                                ELSE NoField("MalformedVarint", off)
               [] wt = 1 -> fld(tag.next, tag.next + 8)
               [] wt = 2 -> LET l == StrictVarint(B, tag.next)
                            IN  IF l.ok THEN fld(l.next, l.next + Num(l.value))
                                ELSE NoField("MalformedVarint", off)
               [] wt = 5 -> fld(tag.next, tag.next + 4)
               [] OTHER -> NoField("UnsupportedWireType", off)

RECURSIVE RefScanFrom(_, _, _)
RefScanFrom(B, off, acc) ==
    IF off >= Len(B) THEN [err |-> "none", fields |-> acc]
    ELSE LET f == RefField(B, off)
         IN  IF f.kind # "field" THEN [err |-> f.kind, fields |-> acc]
             ELSE RefScanFrom(B, f.end, Append(acc, f))

RefScan(B) == RefScanFrom(B, 0, <<>>)

WellFormed(B) == RefScan(B).err = "none"

FieldNums(B) == {RefScan(B).fields[i].num : i \in 1 .. Len(RefScan(B).fields)}

Span(B, f) == SubSeq(B, f.start + 1, f.end)
Payload(B, f) == SubSeq(B, f.body + 1, f.end)

\* concatenation of the spans of the fields (in order) whose number is not n
RECURSIVE KeptSpans(_, _, _)
KeptSpans(B, fields, n) ==
    IF fields = <<>> THEN <<>>
    ELSE (IF Head(fields).num # n THEN Span(B, Head(fields)) ELSE <<>>)
         \o KeptSpans(B, Tail(fields), n)

RECURSIVE DroppedLen(_, _)
DroppedLen(fields, n) ==
    IF fields = <<>> THEN 0
    ELSE (IF Head(fields).num = n THEN Head(fields).end - Head(fields).start ELSE 0)
         + DroppedLen(Tail(fields), n)

(***************************************************************************)
(* Text and the store.  A text is the sequence of its character codes.     *)
(***************************************************************************)
\* the base64 alphabet: A-Z a-z 0-9 + /
B64Char(i) ==
    IF i < 26 THEN 65 + i
    ELSE IF i < 52 THEN 97 + (i - 26)
    ELSE IF i < 62 THEN 48 + (i - 52)
    ELSE IF i = 62 THEN 43 ELSE 47

B64Index(c) ==
    IF c >= 65 /\ c <= 90 THEN c - 65
    ELSE IF c >= 97 /\ c <= 122 THEN c - 97 + 26
    ELSE IF c >= 48 /\ c <= 57 THEN c - 48 + 52
    ELSE IF c = 43 THEN 62
    ELSE IF c = 47 THEN 63 ELSE -1

\* buffer.toString('base64')
RECURSIVE ToBase64(_)
ToBase64(b) ==
    IF b = <<>> THEN <<>>
    ELSE IF Len(b) = 1
    THEN <<B64Char(b[1] \div 4), B64Char((b[1] % 4) * 16), 61, 61>>
    ELSE IF Len(b) = 2
    THEN <<B64Char(b[1] \div 4), B64Char((b[1] % 4) * 16 + (b[2] \div 16)),
           B64Char((b[2] % 16) * 4), 61>>
    ELSE <<B64Char(b[1] \div 4), B64Char((b[1] % 4) * 16 + (b[2] \div 16)),
           B64Char((b[2] % 16) * 4 + (b[3] \div 64)), B64Char(b[3] % 64)>>
         \o ToBase64(SubSeq(b, 4, Len(b)))

\* the bytes of a run of 6-bit values; an incomplete last group yields the
\* bytes it fully determines
RECURSIVE SextetsToBytes(_)
SextetsToBytes(q) ==
    IF Len(q) < 2 THEN <<>>
    ELSE IF Len(q) = 2 THEN <<q[1] * 4 + (q[2] \div 16)>>
    ELSE IF Len(q) = 3
    THEN <<q[1] * 4 + (q[2] \div 16), (q[2] % 16) * 16 + (q[3] \div 4)>>
    ELSE <<q[1] * 4 + (q[2] \div 16), (q[2] % 16) * 16 + (q[3] \div 4),
           (q[3] % 4) * 64 + q[4]>>
         \o SextetsToBytes(SubSeq(q, 5, Len(q)))

\* Buffer.from(text, 'base64'): characters outside the alphabet are skipped
FromBase64(text) ==
    LET q == SelectSeq(text, LAMBDA c : B64Index(c) >= 0)
    IN  SextetsToBytes([i \in 1 .. Len(q) |-> B64Index(q[i])])

IsSpace(c) == c \in {9, 10, 11, 12, 13, 32}

\* String.prototype.trim
RECURSIVE Trim(_)
Trim(t) ==
    IF t = <<>> THEN t
    ELSE IF IsSpace(t[1]) THEN Trim(Tail(t))
    ELSE IF IsSpace(t[Len(t)]) THEN Trim(SubSeq(t, 1, Len(t) - 1))
    ELSE t

\* value.replace(/'/g, "''")
RECURSIVE EscapeQuotes(_)
EscapeQuotes(t) ==
    IF t = <<>> THEN <<>>
    ELSE (IF Head(t) = 39 THEN <<39, 39>> ELSE <<Head(t)>>) \o EscapeQuotes(Tail(t))

\* the value sqlite3 stores for the literal '...' holding the escaped text
RECURSIVE SqlLiteral(_)
SqlLiteral(t) ==
    IF t = <<>> THEN <<>>
    ELSE IF Len(t) >= 2 /\ t[1] = 39 /\ t[2] = 39
    THEN <<39>> \o SqlLiteral(SubSeq(t, 3, Len(t)))
    ELSE <<Head(t)>> \o SqlLiteral(Tail(t))

CredentialKey == "jetskiStateSync.agentManagerInitState"
OnboardingKey == "antigravityOnboarding"
OtherKey == "other"
Keys == {CredentialKey, OnboardingKey, OtherKey}

\* "true"
TrueText == <<116, 114, 117, 101>>

Row(t) == [present |-> TRUE, text |-> t]
NoRow == [present |-> FALSE, text |-> <<>>]

\* the resolved path and the hard-coded candidates, in the order of the list
ResolvedPath == "resolved"
candidates == <<"Antigravity", "Cursor", "Code", "config">>
Paths == {ResolvedPath} \cup {candidates[i] : i \in 1 .. Len(candidates)}

\* what `sqlite3 path "SELECT value ... limit 1"` prints: the value and a newline
SelectStdout(row) == IF row.present THEN row.text \o <<10>> ELSE <<>>

\* stdout.trim() || null, the null written as an absent row
TrimOrNull(stdout) == IF Trim(stdout) = <<>> THEN NoRow ELSE Row(Trim(stdout))

(***************************************************************************)
(* StateInjector                                                           *)
(***************************************************************************)
MaxStoredFields == 4    \* fields the buffer in the store is selected from
MaxInvokes == 2         \* injectTokenAndReload calls made in one behaviour

\* the calls of injectTokenAndReload that may be in progress together
Calls == {1, 2}

\* the probes with the candidates ahead of the derived path
ProbeOrderCandidatesFirst == candidates \o <<ResolvedPath>>

\* the paths getDbPath probes, in the order it probes them: the path derived
\* from globalStorageUri, then the candidates
ProbeOrder == <<ResolvedPath>> \o candidates

NoToken == [access_token |-> Undefined, refresh_token |-> Str(<<>>),
            expires_in |-> Big(0)]

FirstToken ==
    [access_token |-> Str(<<65>>), refresh_token |-> Str(<<82>>),
     expires_in |-> Big(1000)]

Tokens ==
    { FirstToken,
      [access_token |-> Str(<<66, 233>>), refresh_token |-> Str(<<83>>),
       expires_in |-> Big(1700000000)] }

NoSeen == [read |-> FALSE, row |-> NoRow, readOk |-> FALSE, wrote |-> NoRow,
           error |-> "none"]

\* injectTokenAndReload is entered with one of the tokens T
InvokeWith(c, T) ==
    /\ pc[c] = "idle"
    /\ invoked < MaxInvokes
    /\ invoked' = invoked + 1
    /\ \E t \in T : token' = [token EXCEPT ![c] = t]
    /\ pc' = [pc EXCEPT ![c] = "getDbPath"]
    /\ UNCHANGED <<protoVars, svcVars, cmdVars, storeVars, path, finalB64, probe, seen>>

\* injectTokenAndReload, up to the first probe: the call is entered with a token
Invoke(c) == InvokeWith(c, Tokens)

\* getDbPath, line 169: a cached path is returned without probing
ResolveDbPath(c) ==
    /\ pc[c] = "getDbPath"
    /\ IF dbPath # "null"
       THEN /\ path' = [path EXCEPT ![c] = dbPath]
            /\ pc' = [pc EXCEPT ![c] = "read"]
       ELSE /\ path' = path
            /\ pc' = [pc EXCEPT ![c] = "probe"]
    /\ UNCHANGED <<protoVars, svcVars, cmdVars, storeVars, token, finalB64, probe, seen, invoked>>

\* getDbPath, one `await fs.pathExists(p)`: a path whose file exists is cached
\* and returned; after the last candidate getDbPath returns null and
\* injectTokenAndReload throws 'Could not find state.vscdb'
ProbePath(c) ==
    /\ pc[c] = "probe"
    /\ LET p == ProbeOrder[probe[c] + 1]
       IN  IF p \in exists
           THEN /\ dbPath' = p
                /\ path' = [path EXCEPT ![c] = p]
                /\ pc' = [pc EXCEPT ![c] = "read"]
                /\ UNCHANGED <<probe, seen>>
           ELSE IF probe[c] + 1 < Len(ProbeOrder)
           THEN /\ probe' = [probe EXCEPT ![c] = probe[c] + 1]
                /\ UNCHANGED <<dbPath, path, pc, seen>>
           ELSE /\ pc' = [pc EXCEPT ![c] = "failed"]
                /\ seen' = [seen EXCEPT ![c].error = "StoreNotFound"]
                /\ UNCHANGED <<dbPath, path, probe>>
    /\ UNCHANGED <<protoVars, svcVars, cmdVars, exists, db, token, finalB64, invoked>>

\* BuildFinal, but a null from readDbValue is refused instead of being taken
\* as the empty buffer
BuildFinalNullRefused(currentB64, t) ==
    LET blob == IF currentB64.text = <<>> THEN <<>> ELSE FromBase64(currentB64.text)
        cleanData == removeField(blob, 6)
        newField == createOAuthField(t.access_token, t.refresh_token, t.expires_in)
    IN  [threw |-> cleanData.threw \/ ~currentB64.present,
         text |-> IF cleanData.threw \/ ~currentB64.present
                  THEN <<>> ELSE ToBase64(cleanData.buf \o newField)]

\* the text injectTokenAndReload builds from what readDbValue returned, or
\* threw = TRUE when removeField throws
BuildFinal(currentB64, t) ==
    LET blob == IF ~currentB64.present \/ currentB64.text = <<>>
                THEN <<>> ELSE FromBase64(currentB64.text)
        cleanData == removeField(blob, 6)
        newField == createOAuthField(t.access_token, t.refresh_token, t.expires_in)
    IN  [threw |-> cleanData.threw,
         text |-> IF cleanData.threw THEN <<>> ELSE ToBase64(cleanData.buf \o newField)]

\* readDbValue and steps 1 to 4: the sqlite3 command either prints the row
\* or fails, and a failure is returned as null; on a path without a file
\* the command finds no ItemTable and fails
ReadAndBuild(c) ==
    /\ pc[c] = "read"
    /\ \E ok \in BOOLEAN :
         LET row == db[path[c]][CredentialKey]
             currentB64 == IF ok THEN TrimOrNull(SelectStdout(row)) ELSE NoRow
             built == BuildFinal(currentB64, token[c])
         IN  /\ ok => path[c] \in exists
             /\ seen' = [seen EXCEPT ![c] =
                            [NoSeen EXCEPT !.read = TRUE, !.row = row, !.readOk = ok,
                                           !.error = IF built.threw
                                                     THEN "UnknownWireType" ELSE "none"]]
             /\ finalB64' = [finalB64 EXCEPT ![c] = built.text]
             /\ pc' = [pc EXCEPT ![c] = IF built.threw THEN "failed" ELSE "write1"]
    /\ UNCHANGED <<protoVars, svcVars, cmdVars, storeVars, token, path, probe, invoked>>

\* writeDbValue, but the statement replaces the value of every row
writeDbValueEveryRow(c, key, value, next) ==
    \/ /\ path[c] \in exists
       /\ db' = [db EXCEPT ![path[c]] =
                    [k \in Keys |-> Row(SqlLiteral(EscapeQuotes(value)))]]
       /\ pc' = [pc EXCEPT ![c] = next]
    \/ /\ db' = db
       /\ pc' = [pc EXCEPT ![c] = "failed"]

\* writeDbValue: INSERT OR REPLACE of the row, or the command fails and
\* execAsync rejects; on a path without a file there is no ItemTable
writeDbValue(c, key, value, next) ==
    \/ /\ path[c] \in exists
       /\ db' = [db EXCEPT ![path[c]][key] = Row(SqlLiteral(EscapeQuotes(value)))]
       /\ pc' = [pc EXCEPT ![c] = next]
    \/ /\ db' = db
       /\ pc' = [pc EXCEPT ![c] = "failed"]

\* step 5, but a failed write is swallowed and the call goes on to step 6
WriteCredentialSwallowed(c) ==
    /\ pc[c] = "write1"
    /\ pc' = [pc EXCEPT ![c] = "write2"]
    /\ \/ /\ path[c] \in exists
          /\ db' = [db EXCEPT ![path[c]][CredentialKey] =
                       Row(SqlLiteral(EscapeQuotes(finalB64[c])))]
          /\ seen' = [seen EXCEPT ![c].wrote = db'[path[c]][CredentialKey]]
       \/ /\ db' = db
          /\ seen' = [seen EXCEPT ![c].wrote = NoRow]
    /\ UNCHANGED <<protoVars, svcVars, cmdVars, exists, dbPath, token, path, finalB64, probe, invoked>>

\* step 5
WriteCredential(c) ==
    /\ pc[c] = "write1"
    /\ writeDbValue(c, CredentialKey, finalB64[c], "write2")
    /\ seen' = [seen EXCEPT ![c].wrote =
                    IF pc'[c] = "write2" THEN db'[path[c]][CredentialKey] ELSE NoRow,
                             ![c].error =
                    IF pc'[c] = "write2" THEN "none" ELSE "CredentialWrite"]
    /\ UNCHANGED <<protoVars, svcVars, cmdVars, exists, dbPath, token, path, finalB64, probe, invoked>>

\* step 6
WriteOnboarding(c) ==
    /\ pc[c] = "write2"
    /\ writeDbValue(c, OnboardingKey, TrueText, "done")
    /\ seen' = [seen EXCEPT ![c].error =
                    IF pc'[c] = "done" THEN "none" ELSE "OnboardingWrite"]
    /\ UNCHANGED <<protoVars, svcVars, cmdVars, exists, dbPath, token, path, finalB64, probe, invoked>>

\* the promise has settled; the call slot is free for the next invocation
Settle(c) ==
    /\ pc[c] \in {"done", "failed"}
    /\ pc' = [pc EXCEPT ![c] = "idle"]
    /\ token' = [token EXCEPT ![c] = NoToken]
    /\ path' = [path EXCEPT ![c] = "null"]
    /\ finalB64' = [finalB64 EXCEPT ![c] = <<>>]
    /\ probe' = [probe EXCEPT ![c] = 0]
    /\ seen' = [seen EXCEPT ![c] = NoSeen]
    /\ UNCHANGED <<protoVars, svcVars, cmdVars, storeVars, invoked>>

(***************************************************************************)
(* The antigravity.switchAccount command of extension.ts and the parts of  *)
(* DataManager it calls                                                    *)
(***************************************************************************)
AccountIds == {"a1", "a2"}

\* accounts/<id>.json: a1 carries an expiry_timestamp, a2 carries none and
\* leaves the expiry to be computed from expires_in
AccountFile(id) ==
    IF id = "a1"
    THEN [id |-> id,
          token |-> [access_token |-> Str(<<65>>), refresh_token |-> Str(<<82>>),
                     expires_in |-> 3599, expiry_timestamp |-> Big(1700003600)]]
    ELSE [id |-> id,
          token |-> [access_token |-> Str(<<66, 233>>), refresh_token |-> Str(<<83>>),
                     expires_in |-> 3599, expiry_timestamp |-> Big(0)]]

NoAccount == [id |-> "null", token |-> NoToken]

\* Math.floor(Date.now() / 1000)
Now == Big(1700000000)

\* a + n for a small n
BigAdd(a, n) == [hi |-> a.hi + ((a.lo + n) \div Limb), lo |-> (a.lo + n) % Limb]

\* lines 83-87: expiry_timestamp, else now + expires_in, else now + 3600
Expiry(t) ==
    IF t.expiry_timestamp # Big(0) THEN t.expiry_timestamp
    ELSE IF t.expires_in # 0 THEN BigAdd(Now, t.expires_in)
    ELSE BigAdd(Now, 3600)

\* the index loadAccountIndex returns when the file is missing or unreadable
DefaultIndex == [accounts |-> <<>>, current_account_id |-> "undefined"]

\* an entry of the index: the summary addToIndex makes of an account
Summary(id, email) == [id |-> id, email |-> email]

StoredIndex == [accounts |-> <<Summary("a1", "e1"), Summary("a2", "e2")>>,
                current_account_id |-> "a1"]

NoCmd == [accountId |-> "", index |-> DefaultIndex, acc |-> NoAccount,
          prompted |-> FALSE, quit |-> FALSE, errorShown |-> FALSE]

\* the command is invoked; without an account id it returns at once
SwitchAccount(c) ==
    /\ pc[c] = "idle"
    /\ \E accountId \in AccountIds \cup {""} :
         /\ cmd' = [cmd EXCEPT ![c].accountId = accountId]
         /\ pc' = [pc EXCEPT ![c] = IF accountId = "" THEN "ended" ELSE "loadIndex"]
    /\ UNCHANGED <<protoVars, svcVars, storeVars, token, path, finalB64, probe, seen,
                   invoked, index>>

\* setCurrentAccount, loadAccountIndex: the index file, or the default index
\* when it cannot be read
LoadIndex(c) ==
    /\ pc[c] = "loadIndex"
    /\ \E read \in {index, DefaultIndex} :
         cmd' = [cmd EXCEPT ![c].index = read]
    /\ pc' = [pc EXCEPT ![c] = "saveIndex"]
    /\ UNCHANGED <<protoVars, svcVars, storeVars, token, path, finalB64, probe, seen,
                   invoked, index>>

\* setCurrentAccount, saveAccountIndex: the loaded index is written back with
\* the new current_account_id, or writeJson rejects and so does the command
SaveIndex(c) ==
    /\ pc[c] = "saveIndex"
    /\ \/ /\ index' = [cmd[c].index EXCEPT !.current_account_id = cmd[c].accountId]
          /\ pc' = [pc EXCEPT ![c] = "refresh"]
       \/ /\ index' = index
          /\ pc' = [pc EXCEPT ![c] = "rejected"]
    /\ UNCHANGED <<protoVars, svcVars, storeVars, token, path, finalB64, probe, seen,
                   invoked, cmd>>

\* lines 68-70: the views are redrawn from what DataManager reads
RefreshViews(c) ==
    /\ pc[c] = "refresh"
    /\ pc' = [pc EXCEPT ![c] = "loadAccount"]
    /\ UNCHANGED <<protoVars, svcVars, storeVars, token, path, finalB64, probe, seen,
                   invoked, cmdVars>>

\* loadAccount: the account, or null when its file cannot be read; with an
\* account the confirmation message is shown
LoadAccount(c) ==
    /\ pc[c] = "loadAccount"
    /\ \/ /\ cmd' = [cmd EXCEPT ![c].acc = AccountFile(cmd[c].accountId)]
          /\ pc' = [pc EXCEPT ![c] = "confirm"]
       \/ /\ cmd' = cmd
          /\ pc' = [pc EXCEPT ![c] = "ended"]
    /\ UNCHANGED <<protoVars, svcVars, storeVars, token, path, finalB64, probe, seen,
                   invoked, index>>

\* the user answers the confirmation; on "confirm" injectTokenAndReload is
\* called with the account's token and the computed expiry
ConfirmSwitch(c) ==
    /\ pc[c] = "confirm"
    /\ \E ans \in {"confirm", "cancel", "undefined"} :
         IF ans = "confirm"
         THEN /\ token' = [token EXCEPT ![c] =
                             [cmd[c].acc.token EXCEPT
                                 !.expires_in = Expiry(cmd[c].acc.token)]]
              /\ pc' = [pc EXCEPT ![c] = "getDbPath"]
              /\ invoked' = invoked + 1
         ELSE /\ pc' = [pc EXCEPT ![c] = "ended"]
              /\ UNCHANGED <<token, invoked>>
    /\ UNCHANGED <<protoVars, svcVars, storeVars, path, finalB64, probe, seen, cmdVars>>

\* the restart warning shown however injectTokenAndReload settled
RestartPromptAlways(c) ==
    /\ pc[c] \in {"done", "failed"}
    /\ cmd' = [cmd EXCEPT ![c].prompted = TRUE]
    /\ pc' = [pc EXCEPT ![c] = "restart"]
    /\ UNCHANGED <<protoVars, svcVars, storeVars, token, path, finalB64, probe, seen,
                   invoked, index>>

\* injectTokenAndReload resolved: the restart warning is shown
RestartPrompt(c) ==
    /\ pc[c] = "done"
    /\ cmd' = [cmd EXCEPT ![c].prompted = TRUE]
    /\ pc' = [pc EXCEPT ![c] = "restart"]
    /\ UNCHANGED <<protoVars, svcVars, storeVars, token, path, finalB64, probe, seen,
                   invoked, index>>

\* the user answers the restart warning; on "quit" the host quit command is
\* executed
AnswerRestart(c) ==
    /\ pc[c] = "restart"
    /\ \E ans \in {"quit", "later", "undefined"} :
         cmd' = [cmd EXCEPT ![c].quit = (ans = "quit")]
    /\ pc' = [pc EXCEPT ![c] = "ended"]
    /\ UNCHANGED <<protoVars, svcVars, storeVars, token, path, finalB64, probe, seen,
                   invoked, index>>

\* injectTokenAndReload rejected: the catch shows the error message
ShowError(c) ==
    /\ pc[c] = "failed"
    /\ cmd' = [cmd EXCEPT ![c].errorShown = TRUE]
    /\ pc' = [pc EXCEPT ![c] = "ended"]
    /\ UNCHANGED <<protoVars, svcVars, storeVars, token, path, finalB64, probe, seen,
                   invoked, index>>

(***************************************************************************)
(* SchedulerService of src/src/AccountWebviewProvider.ts                   *)
(***************************************************************************)
MaxTimers == 4      \* setTimeout calls made in one behaviour

\* schedule is "undefined" or the `enabled` of the config; timer is the
\* handle in this.timer (0 for undefined); live holds the timers that are
\* pending, each with what its callback does; inflight holds the timers whose
\* callback is awaiting onTrigger; created counts the handles; stopped tells
\* that stop() has returned and neither start() nor setSchedule() was called
\* since
NoSched == [schedule |-> "undefined", onTrigger |-> FALSE, timer |-> 0,
            live |-> {}, inflight |-> {}, created |-> 0, stopped |-> FALSE]

\* what getNextRunTime and the delay tests of lines 673-685 come to: no next
\* run, a run already past or too far ahead (a timer that only reschedules)
\* or a run that is due (a timer that triggers)
NextRuns(s) ==
    IF s.schedule # "enabled" THEN {"none"} ELSE {"none", "retry", "trigger"}

\* stop, lines 648-654
Stopped(s) ==
    IF s.timer # 0
    THEN [s EXCEPT !.live = {t \in s.live : t.id # s.timer}, !.timer = 0]
    ELSE s

\* scheduleNextRun, lines 671-696, with the next run being of kind k
Scheduled(s, k) ==
    IF s.schedule = "undefined" \/ ~s.onTrigger \/ k = "none" THEN s
    ELSE [s EXCEPT !.created = s.created + 1,
                   !.timer = s.created + 1,
                   !.live = s.live \cup {[id |-> s.created + 1, kind |-> k]}]

\* start, lines 641-646
Started(s, k) ==
    IF s.schedule = "undefined" \/ ~s.onTrigger THEN s
    ELSE Scheduled(Stopped(s), k)

\* the services' actions leave the stores, the calls and the commands alone
OnlyServices == UNCHANGED <<protoVars, storeVars, callVars, cmdVars>>

setSchedule(enabled) ==
    /\ sched.created < MaxTimers
    /\ LET s == [sched EXCEPT !.schedule = IF enabled THEN "enabled" ELSE "disabled",
                              !.onTrigger = TRUE]
       IN  IF enabled
           THEN \E k \in NextRuns(s) :
                   sched' = [Started(s, k) EXCEPT !.stopped = FALSE]
           ELSE sched' = [Stopped(s) EXCEPT !.stopped = TRUE]
    /\ OnlyServices
    /\ UNCHANGED <<trig, ops>>

start ==
    /\ sched.created < MaxTimers
    /\ \E k \in NextRuns(sched) :
         sched' = [Started(sched, k) EXCEPT !.stopped = FALSE]
    /\ OnlyServices
    /\ UNCHANGED <<trig, ops>>

stop ==
    /\ sched' = [Stopped(sched) EXCEPT !.stopped = TRUE]
    /\ OnlyServices
    /\ UNCHANGED <<trig, ops>>

\* a pending timer fires: lines 678 and 683 reschedule, line 688 calls
\* onTrigger and awaits it
TimerExpires(t) ==
    /\ t \in sched.live
    /\ sched.created < MaxTimers
    /\ LET s == [sched EXCEPT !.live = sched.live \ {t}]
       IN  IF t.kind = "retry"
           THEN \E k \in NextRuns(s) : sched' = Scheduled(s, k)
           ELSE sched' = [s EXCEPT !.inflight = s.inflight \cup {t.id}]
    /\ OnlyServices
    /\ UNCHANGED <<trig, ops>>

\* onTrigger settles, resolved or rejected: lines 691-694
TriggerCompletes(id) ==
    /\ id \in sched.inflight
    /\ sched.created < MaxTimers
    /\ LET s == [sched EXCEPT !.inflight = sched.inflight \ {id}]
       IN  IF s.schedule = "enabled"
           THEN \E k \in NextRuns(s) : sched' = Scheduled(s, k)
           ELSE sched' = s
    /\ OnlyServices
    /\ UNCHANGED <<trig, ops>>

TimerIds == 1 .. MaxTimers

Timers == [id : TimerIds, kind : {"retry", "trigger"}]

SchedNext ==
    \/ \E enabled \in BOOLEAN : setSchedule(enabled)
    \/ start
    \/ stop
    \/ \E t \in Timers : TimerExpires(t)
    \/ \E id \in TimerIds : TriggerCompletes(id)

(***************************************************************************)
(* TriggerService of src/unnamed/part_000                                  *)
(***************************************************************************)
MAX_HISTORY_ITEMS == 50

MaxTriggers == 2    \* trigger() calls made in one behaviour

TriggerCalls == 1 .. MaxTriggers

\* a record is the number of the trigger that made it, in order of creation
\* (its timestamp); the records a history file holds from earlier runs are 0
OldRecords(n) == [i \in 1 .. n |-> 0]

\* the history files an earlier run leaves: none, an empty one, and ones
\* filled close to and up to the cap
NoFile == [present |-> FALSE, text |-> <<>>]

File(t) == [present |-> TRUE, text |-> t]

HistoryFiles ==
    {NoFile, File(<<>>), File(OldRecords(MAX_HISTORY_ITEMS - 1)),
     File(OldRecords(MAX_HISTORY_ITEMS))}

NoTriggerCall == [pc |-> "idle", rec |-> 0, ok |-> FALSE, snap |-> <<>>]

\* history is this.history and file the history file; load is where the
\* constructor's loadHistory stands and loaded what its readJson read;
\* calls are the trigger() calls and clear the clearHistory() call, each
\* with the text its writeJson is writing; made counts the records; due
\* holds the records unshifted and since neither cleared nor cut off by
\* the cap
NoTrig == [history |-> <<>>, file |-> NoFile, load |-> "exists",
           loaded |-> <<>>,
           calls |-> [k \in TriggerCalls |-> NoTriggerCall],
           clear |-> [pc |-> "idle", snap |-> <<>>],
           made |-> 0, due |-> {}]

RecordsOf(h) == {h[i] : i \in 1 .. Len(h)}

\* line 110
Truncate(h) ==
    IF Len(h) > MAX_HISTORY_ITEMS THEN SubSeq(h, 1, MAX_HISTORY_ITEMS) ELSE h

OnlyTrigger ==
    /\ UNCHANGED <<protoVars, storeVars, callVars, cmdVars>>
    /\ UNCHANGED <<sched, ops>>

\* loadHistory, line 39: pathExists resolves (or rejects, line 42)
LoadExists ==
    /\ trig.load = "exists"
    /\ \E ok \in BOOLEAN :
         trig' = [trig EXCEPT !.load = IF ok /\ trig.file.present
                                       THEN "reading" ELSE "done"]
    /\ OnlyTrigger

\* line 40: readJson reads the file, or fails (line 42)
LoadRead ==
    /\ trig.load = "reading"
    /\ \E ok \in BOOLEAN :
         trig' = IF ok /\ trig.file.present
                 THEN [trig EXCEPT !.load = "assign", !.loaded = trig.file.text]
                 ELSE [trig EXCEPT !.load = "done"]
    /\ OnlyTrigger

\* line 40: the awaited value is assigned to this.history
LoadAssign ==
    /\ trig.load = "assign"
    /\ trig' = [trig EXCEPT !.load = "done", !.history = trig.loaded]
    /\ OnlyTrigger

\* trigger, lines 64-69: the call starts and awaits the accounts, the token
\* and the request
TriggerStart(k) ==
    /\ trig.calls[k].pc = "idle"
    /\ \A j \in TriggerCalls : j < k => trig.calls[j].pc # "idle"
    /\ trig' = [trig EXCEPT !.calls[k].pc = "running"]
    /\ OnlyTrigger

\* lines 99-111 when the request succeeded, lines 115-126 when anything
\* before threw: the record is made and unshifted, and saveHistory hands
\* the history to writeJson
TriggerRecords(k) ==
    /\ trig.calls[k].pc = "running"
    /\ \E ok \in BOOLEAN :
         LET r == trig.made + 1
             h == IF ok THEN Truncate(<<r>> \o trig.history)
                  ELSE <<r>> \o trig.history
         IN  trig' = [trig EXCEPT !.history = h,
                                  !.made = r,
                                  !.due = (trig.due \cup {r}) \cap RecordsOf(h),
                                  !.calls[k] = [pc |-> "saving", rec |-> r,
                                                ok |-> ok, snap |-> h]]
    /\ OnlyTrigger

\* lines 49-51 and 113 or 127: writeJson settles, saveHistory swallows its
\* failure, and trigger returns the record or rethrows
TriggerSettles(k) ==
    /\ trig.calls[k].pc = "saving"
    /\ \E ok \in BOOLEAN :
         trig' = [trig EXCEPT !.calls[k].pc = "settled",
                              !.file = IF ok THEN File(trig.calls[k].snap)
                                       ELSE trig.file]
    /\ OnlyTrigger

\* clearHistory, lines 59-61
ClearHistory ==
    /\ trig.clear.pc = "idle"
    /\ trig.history # <<>>
    /\ trig' = [trig EXCEPT !.history = <<>>, !.due = {},
                            !.clear = [pc |-> "saving", snap |-> <<>>]]
    /\ OnlyTrigger

\* lines 49-51 and 62
ClearSettles ==
    /\ trig.clear.pc = "saving"
    /\ \E ok \in BOOLEAN :
         trig' = [trig EXCEPT !.clear.pc = "idle",
                              !.file = IF ok THEN File(trig.clear.snap)
                                       ELSE trig.file]
    /\ OnlyTrigger

TriggerNext ==
    \/ LoadExists
    \/ LoadRead
    \/ LoadAssign
    \/ \E k \in TriggerCalls : TriggerStart(k)
    \/ \E k \in TriggerCalls : TriggerRecords(k)
    \/ \E k \in TriggerCalls : TriggerSettles(k)
    \/ ClearHistory
    \/ ClearSettles

(***************************************************************************)
(* The account index of src/src/services/DataManager.ts under the login    *)
(* flow of AuthService and removeSession of the authentication provider    *)
(***************************************************************************)
MaxOps == 3         \* logins, account switches and removeSession calls made

Ops == 1 .. MaxOps

Emails == {"e1", "e2"}

\* the accounts a login can bring: Google's id and email of the user
Logins == {Summary(id, email) : id \in AccountIds, email \in Emails}

\* an operation: what it is, where it stands, the account of a login, the id
\* setCurrentAccount is called with, and the index object it holds
NoOp == [kind |-> "none", pc |-> "idle", account |-> Summary("", ""),
         target |-> "undefined", index |-> DefaultIndex]

NoOps == [o \in Ops |-> NoOp]

\* Array.prototype.findIndex for the test "the entry's field is v", counted
\* from 1, 0 when nothing matches
findIndex(a, field, v) ==
    IF \E i \in DOMAIN a : a[i][field] = v
    THEN CHOOSE i \in DOMAIN a :
            a[i][field] = v /\ \A j \in 1 .. i - 1 : a[j][field] # v
    ELSE 0

\* addToIndex, lines 103-124, on the index it loaded
AddedToIndex(ix, account) ==
    LET existingIdx == findIndex(ix.accounts, "id", account.id)
        emailIdx == findIndex(ix.accounts, "email", account.email)
    IN  IF existingIdx > 0
        THEN [ix EXCEPT !.accounts[existingIdx] = account]
        ELSE IF emailIdx > 0
             THEN [ix EXCEPT !.accounts[emailIdx] = account]
             ELSE [ix EXCEPT !.accounts = Append(@, account)]

OnlyIndex ==
    /\ UNCHANGED <<protoVars, storeVars, callVars, cmd>>
    /\ UNCHANGED <<sched, trig>>

\* an operation that has settled keeps nothing
Ended == [NoOp EXCEPT !.pc = "ended"]

\* the operations start one after the other, and may overlap
Startable(o) ==
    /\ ops[o].pc = "idle"
    /\ \A n \in Ops : n < o => ops[n].pc # "idle"

\* startLoginFlow, lines 45-62: the account is made and saveAccount writes
\* its file, or rejects and the flow ends in the catch of line 74
Login(o) ==
    /\ Startable(o)
    /\ \E account \in Logins, ok \in BOOLEAN :
         IF ok
         THEN ops' = [ops EXCEPT ![o] = [NoOp EXCEPT !.kind = "login",
                                                    !.account = account,
                                                    !.target = account.id,
                                                    !.pc = "addLoad"]]
                ELSE ops' = [ops EXCEPT ![o] = Ended]
    /\ index' = index
    /\ OnlyIndex

\* addToIndex, lines 103-124: loadAccountIndex gives the file, or the
\* default index when it cannot be read, and the account is put into it
AddToIndexLoad(o) ==
    /\ ops[o].pc = "addLoad"
    /\ \E read \in {index, DefaultIndex} :
         ops' = [ops EXCEPT ![o].index = AddedToIndex(read, ops[o].account),
                            ![o].pc = "addSave"]
    /\ index' = index
    /\ OnlyIndex

\* addToIndex, line 126: saveAccountIndex writes the index object, or
\* rejects and the flow ends in the catch
AddToIndexSave(o) ==
    /\ ops[o].pc = "addSave"
    /\ \/ /\ index' = ops[o].index
          /\ ops' = [ops EXCEPT ![o].pc = "checkCurrent"]
       \/ /\ index' = index
          /\ ops' = [ops EXCEPT ![o] = Ended]
    /\ OnlyIndex

\* startLoginFlow, lines 68-69: without a current account the new one is
\* made current
CheckCurrent(o) ==
    /\ ops[o].pc = "checkCurrent"
    /\ \E read \in {index, DefaultIndex} :
         ops' = [ops EXCEPT ![o] = IF read.current_account_id = "undefined"
                                   THEN [ops[o] EXCEPT !.pc = "setLoad"]
                                   ELSE Ended]
    /\ index' = index
    /\ OnlyIndex

\* removeSession, line 48: setCurrentAccount(undefined)
RemoveSession(o) ==
    /\ Startable(o)
    /\ ops' = [ops EXCEPT ![o] = [NoOp EXCEPT !.kind = "removeSession",
                                              !.pc = "setLoad"]]
    /\ index' = index
    /\ OnlyIndex

\* the switchAccount command, extension.ts line 65: setCurrentAccount with
\* the id the command was given
SwitchCurrent(o) ==
    /\ Startable(o)
    /\ \E accountId \in AccountIds :
         ops' = [ops EXCEPT ![o] = [NoOp EXCEPT !.kind = "switchAccount",
                                               !.target = accountId,
                                               !.pc = "setLoad"]]
    /\ index' = index
    /\ OnlyIndex

\* setCurrentAccount, lines 135-136
SetCurrentLoad(o) ==
    /\ ops[o].pc = "setLoad"
    /\ \E read \in {index, DefaultIndex} :
         ops' = [ops EXCEPT ![o].index = [read EXCEPT !.current_account_id =
                                                         ops[o].target],
                            ![o].pc = "setSave"]
    /\ index' = index
    /\ OnlyIndex

\* setCurrentAccount, line 137
SetCurrentSave(o) ==
    /\ ops[o].pc = "setSave"
    /\ index' \in {ops[o].index, index}
    /\ ops' = [ops EXCEPT ![o] = Ended]
    /\ OnlyIndex

IndexNext ==
    \E o \in Ops :
        \/ Login(o)
        \/ AddToIndexLoad(o)
        \/ AddToIndexSave(o)
        \/ CheckCurrent(o)
        \/ RemoveSession(o)
        \/ SwitchCurrent(o)
        \/ SetCurrentLoad(o)
        \/ SetCurrentSave(o)

\* fields the stored buffer is assembled from: a stored buffer holds a run
\* of consecutive ones among the first MaxStoredFields of them
StoredFields ==
    << <<10, 1, 120>>,                     \* 1: "x"
       <<50, 2, 8, 1>>,                    \* 6: an old credential
       <<74, 2, 50, 0>>,                   \* 9: payload that reads as a field 6
       <<11>>,                             \* 1: start-group
       <<48, 5>>,                          \* 6: varint
       <<9, 1, 2>> >>                      \* 1: fixed64 cut short

RECURSIVE StoredRun(_, _)
StoredRun(i, j) ==
    IF i > j THEN <<>> ELSE StoredFields[i] \o StoredRun(i + 1, j)

StoredConcats(k) ==
    {<<>>} \cup {StoredRun(i, j) : i \in 1 .. Min(k, Len(StoredFields)),
                                  j \in 1 .. Min(k, Len(StoredFields))}

StoredBuffers == StoredConcats(MaxStoredFields)

InitialRows == {NoRow} \cup {Row(ToBase64(b)) : b \in StoredBuffers}

ExistsChoices == {{}, {ResolvedPath, "Cursor"}, {"Cursor", "config"}}

IdleCalls ==
    /\ pc = [c \in Calls |-> "idle"]
    /\ token = [c \in Calls |-> NoToken]
    /\ path = [c \in Calls |-> "null"]
    /\ finalB64 = [c \in Calls |-> <<>>]
    /\ probe = [c \in Calls |-> 0]
    /\ seen = [c \in Calls |-> NoSeen]
    /\ invoked = 0
    /\ cmd = [c \in Calls |-> NoCmd]
    /\ index = StoredIndex
    /\ sched = NoSched
    /\ trig = NoTrig
    /\ ops = NoOps

(***************************************************************************)
(* Inputs of the ProtoUtils functions                                      *)
(***************************************************************************)
MaxFields == 3      \* fields concatenated into one input buffer
MaxCut == 2         \* bytes cut off the end of an input buffer
MaxVarintLen == 3   \* length of the raw buffers handed to readVarint
MaxTokenLen == 2    \* code points in a short token

\* encoded fields an input buffer is assembled from: field numbers 1, 6, 9
\* and 16 in the wire types 0..7, with a payload that looks like a field 6
FieldPool ==
    { <<8, 150, 1>>,                       \* 1: varint 150 (two bytes)
      <<10, 1, 120>>,                      \* 1: "x"
      <<9, 1, 2, 3, 4, 5, 6, 7, 8>>,       \* 1: fixed64
      <<50, 2, 8, 1>>,                     \* 6: length-delimited
      <<48, 5>>,                           \* 6: varint
      <<53, 1, 2, 3, 4>>,                  \* 6: fixed32
      <<74, 2, 50, 0>>,                    \* 9: payload that reads as a field 6
      <<130, 1, 1, 54>>,                   \* 16: two-byte tag, length-delimited
      <<11>>,                              \* 1: start-group
      <<52>>,                              \* 6: end-group
      <<55>> }                             \* 6: wire type 7

RECURSIVE Concats(_)
Concats(k) ==
    IF k = 0 THEN {<<>>}
    ELSE Concats(k - 1) \cup {b \o f : b \in Concats(k - 1), f \in FieldPool}

CutEnd(b, t) == SubSeq(b, 1, Len(b) - Min(t, Len(b)))

Buffers == {CutEnd(b, t) : b \in Concats(MaxFields), t \in 0 .. MaxCut}

Targets == {1, 6, 7}

VarintBytes == {0, 1, 127, 128, 172, 255}

RECURSIVE SeqsUpTo(_, _)
SeqsUpTo(S, k) ==
    IF k = 0 THEN {<<>>}
    ELSE SeqsUpTo(S, k - 1) \cup {Append(q, x) : q \in SeqsUpTo(S, k - 1), x \in S}

VarintBuffers == SeqsUpTo(VarintBytes, MaxVarintLen)

\* 0, 127, 128, 16384, 2^35 and their neighbours, up to 2^42 - 1
VarintValues ==
    {[hi |-> h, lo |-> l] :
        h \in {0, 1, 127, 128, 2 ^ 15, 2 ^ 22 - 1},
        l \in {0, 1, 127, 128, 1000, 16383, 16384, Limb - 1}}

LongToken == [i \in 1 .. 130 |-> 97]

TokenStrings == SeqsUpTo({65, 82, 8364}, MaxTokenLen) \cup {LongToken}

AccessTokens == {Undefined} \cup {Str(s) : s \in TokenStrings}
RefreshTokens == {Str(s) : s \in TokenStrings}
Expiries == {Big(0), Big(1000), Big(1700000000), [hi |-> 2 ^ 15, lo |-> 0]}

NoArgs == [op |-> "none", buffer |-> <<>>, n |-> 0, value |-> Big(0),
           accessToken |-> Undefined, refreshToken |-> Str(<<>>)]

RemoveFieldArgs(b, n) == [NoArgs EXCEPT !.op = "removeField", !.buffer = b, !.n = n]
ReadVarintArgs(b, o) == [NoArgs EXCEPT !.op = "readVarint", !.buffer = b, !.n = o]
EncodeVarintArgs(v) == [NoArgs EXCEPT !.op = "encodeVarint", !.value = v]
CreateOAuthFieldArgs(a, r, e) ==
    [NoArgs EXCEPT !.op = "createOAuthField", !.accessToken = a,
                   !.refreshToken = r, !.value = e]

NoResult == [done |-> FALSE, threw |-> FALSE, buf |-> <<>>,
             value |-> Big(0), newOffset |-> 0]

(***************************************************************************)
(* Applying the functions                                                  *)
(***************************************************************************)
ProtoInit ==
    /\ \/ \E b \in Buffers, n \in Targets : input = RemoveFieldArgs(b, n)
       \/ \E b \in VarintBuffers, o \in 0 .. MaxVarintLen + 1 :
             input = ReadVarintArgs(b, o)
       \/ \E v \in VarintValues : input = EncodeVarintArgs(v)
       \/ \E a \in AccessTokens, r \in RefreshTokens, e \in Expiries :
             input = CreateOAuthFieldArgs(a, r, e)
    /\ output = NoResult
    /\ exists = {}
    /\ db = [p \in Paths |-> [k \in Keys |-> NoRow]]
    /\ dbPath = "null"
    /\ IdleCalls

CallRemoveField ==
    /\ input.op = "removeField"
    /\ ~output.done
    /\ LET r == removeField(input.buffer, input.n)
       IN  output' = [NoResult EXCEPT !.done = TRUE, !.threw = r.threw, !.buf = r.buf]
    /\ UNCHANGED <<input, svcVars, storeVars, callVars, cmdVars>>

CallReadVarint ==
    /\ input.op = "readVarint"
    /\ ~output.done
    /\ LET r == readVarint(input.buffer, input.n)
       IN  output' = [NoResult EXCEPT !.done = TRUE, !.value = r.value,
                                      !.newOffset = r.newOffset]
    /\ UNCHANGED <<input, svcVars, storeVars, callVars, cmdVars>>

\* readVarint(encodeVarint(v), 0)
CallEncodeVarint ==
    /\ input.op = "encodeVarint"
    /\ ~output.done
    /\ LET enc == encodeVarint(input.value)
           r == readVarint(enc, 0)
       IN  output' = [NoResult EXCEPT !.done = TRUE, !.buf = enc, !.value = r.value,
                                      !.newOffset = r.newOffset]
    /\ UNCHANGED <<input, svcVars, storeVars, callVars, cmdVars>>

CallCreateOAuthField ==
    /\ input.op = "createOAuthField"
    /\ ~output.done
    /\ output' = [NoResult EXCEPT !.done = TRUE,
                     !.buf = createOAuthField(input.accessToken, input.refreshToken,
                                              input.value)]
    /\ UNCHANGED <<input, svcVars, storeVars, callVars, cmdVars>>

ProtoNext ==
    \/ CallRemoveField
    \/ CallReadVarint
    \/ CallEncodeVarint
    \/ CallCreateOAuthField

ProtoSpec == ProtoInit /\ [][ProtoNext]_vars

(***************************************************************************)
(* removeField, one loop iteration at a time: output.newOffset is `offset`, *)
(* output.buf is the concatenation of `chunks` and output.value counts the  *)
(* iterations made                                                          *)
(***************************************************************************)
ScanInit ==
    /\ \E b \in Buffers, n \in Targets : input = RemoveFieldArgs(b, n)
    /\ output = NoResult
    /\ exists = {}
    /\ db = [p \in Paths |-> [k \in Keys |-> NoRow]]
    /\ dbPath = "null"
    /\ IdleCalls

\* lines 327-340: the body of the while loop
RemoveFieldIteration ==
    /\ input.op = "removeField"
    /\ ~output.done
    /\ output.newOffset < Len(input.buffer)
    /\ LET startOffset == output.newOffset
           r == readVarint(input.buffer, output.newOffset)
           wireType == TagWireType(r.value)
           fieldNum == TagFieldNum(r.value)
           sk == skipField(input.buffer, r.newOffset, wireType)
       IN  output' =
             IF sk.threw
             THEN [output EXCEPT !.done = TRUE, !.threw = TRUE, !.buf = <<>>]
             ELSE [output EXCEPT
                     !.newOffset = sk.off,
                     !.value = BigAdd(output.value, 1),
                     !.buf = IF fieldNum = input.n THEN output.buf
                             ELSE output.buf
                                  \o subarray(input.buffer, startOffset, sk.off)]
    /\ UNCHANGED <<input, svcVars, storeVars, callVars, cmdVars>>

\* lines 326 and 343: the loop condition fails and the chunks are returned
RemoveFieldReturn ==
    /\ input.op = "removeField"
    /\ ~output.done
    /\ output.newOffset >= Len(input.buffer)
    /\ output' = [output EXCEPT !.done = TRUE]
    /\ UNCHANGED <<input, svcVars, storeVars, callVars, cmdVars>>

ScanNext ==
    \/ RemoveFieldIteration
    \/ RemoveFieldReturn

ScanSpec == ScanInit /\ [][ScanNext]_vars

(***************************************************************************)
(* Patching the store                                                      *)
(***************************************************************************)
\* the stored buffer varies for the store at the resolved path; the stores
\* found through the candidate list start with the first stored field
PatchInit ==
    /\ input = NoArgs
    /\ output = NoResult
    /\ exists \in ExistsChoices
    /\ \E r \in InitialRows :
         /\ ResolvedPath \notin exists => r = Row(ToBase64(StoredFields[1]))
         /\ db = [p \in Paths |->
                    IF p \in exists
                    THEN [k \in Keys |->
                            IF k = CredentialKey THEN r
                            ELSE IF k = OtherKey THEN Row(<<120>>) ELSE NoRow]
                    ELSE [k \in Keys |-> NoRow]]
    /\ dbPath = "null"
    /\ IdleCalls

PatchNext ==
    \E c \in Calls :
        \/ Invoke(c)
        \/ ResolveDbPath(c)
        \/ ProbePath(c)
        \/ ReadAndBuild(c)
        \/ WriteCredential(c)
        \/ WriteOnboarding(c)
        \/ Settle(c)

PatchSpec == PatchInit /\ [][PatchNext]_vars

(***************************************************************************)
(* Patching while store files appear and disappear                         *)
(***************************************************************************)
\* the rows of a store file as the host created it, and of no file
FileStore ==
    [k \in Keys |->
        IF k = CredentialKey THEN Row(ToBase64(StoredFields[1]))
        ELSE IF k = OtherKey THEN Row(<<120>>) ELSE NoRow]

NoStore == [k \in Keys |-> NoRow]

\* the paths whose file comes and goes while the extension runs
ChangingPaths == {ResolvedPath, "Cursor"}

\* what fs.pathExists sees next: a store file is created at p
FileAppears(p) ==
    /\ p \notin exists
    /\ exists' = exists \cup {p}
    /\ db' = [db EXCEPT ![p] = FileStore]
    /\ UNCHANGED <<protoVars, svcVars, cmdVars, dbPath, callVars, cmdVars>>

\* what fs.pathExists sees next: the store file at p is removed
FileDisappears(p) ==
    /\ p \in exists
    /\ exists' = exists \ {p}
    /\ db' = [db EXCEPT ![p] = NoStore]
    /\ UNCHANGED <<protoVars, svcVars, cmdVars, dbPath, callVars, cmdVars>>

PathInit ==
    /\ input = NoArgs
    /\ output = NoResult
    /\ exists \in SUBSET (ChangingPaths \cup {"config"})
    /\ db = [p \in Paths |-> IF p \in exists THEN FileStore ELSE NoStore]
    /\ dbPath = "null"
    /\ IdleCalls

\* each call is made once, both with the same token
PathNext ==
    \/ \E c \in Calls :
          \/ InvokeWith(c, {FirstToken})
          \/ ResolveDbPath(c)
          \/ ProbePath(c)
          \/ ReadAndBuild(c)
          \/ WriteCredential(c)
          \/ WriteOnboarding(c)
    \/ \E p \in ChangingPaths :
          \/ FileAppears(p)
          \/ FileDisappears(p)

PathSpec == PathInit /\ [][PathNext]_vars

(***************************************************************************)
(* Switching accounts: each command is invoked once, and both may be in     *)
(* progress together, as the webview dispatches them without awaiting      *)
(***************************************************************************)
SwitchInit ==
    /\ input = NoArgs
    /\ output = NoResult
    /\ exists \in {{}, {ResolvedPath}}
    /\ db = [p \in Paths |-> IF p \in exists THEN FileStore ELSE NoStore]
    /\ dbPath = "null"
    /\ IdleCalls

SwitchNext ==
    \E c \in Calls :
        \/ SwitchAccount(c)
        \/ LoadIndex(c)
        \/ SaveIndex(c)
        \/ RefreshViews(c)
        \/ LoadAccount(c)
        \/ ConfirmSwitch(c)
        \/ ResolveDbPath(c)
        \/ ProbePath(c)
        \/ ReadAndBuild(c)
        \/ WriteCredential(c)
        \/ WriteOnboarding(c)
        \/ RestartPrompt(c)
        \/ AnswerRestart(c)
        \/ ShowError(c)

SwitchSpec == SwitchInit /\ [][SwitchNext]_vars

(***************************************************************************)
(* The services on their own: no store file, no call, no command           *)
(***************************************************************************)
ServiceInit ==
    /\ input = NoArgs
    /\ output = NoResult
    /\ exists = {}
    /\ db = [p \in Paths |-> NoStore]
    /\ dbPath = "null"
    /\ IdleCalls

SchedSpec == ServiceInit /\ [][SchedNext]_vars

\* TriggerService after its constructor, over each history file
TriggerInit ==
    /\ input = NoArgs
    /\ output = NoResult
    /\ exists = {}
    /\ db = [p \in Paths |-> NoStore]
    /\ dbPath = "null"
    /\ pc = [c \in Calls |-> "idle"]
    /\ token = [c \in Calls |-> NoToken]
    /\ path = [c \in Calls |-> "null"]
    /\ finalB64 = [c \in Calls |-> <<>>]
    /\ probe = [c \in Calls |-> 0]
    /\ seen = [c \in Calls |-> NoSeen]
    /\ invoked = 0
    /\ cmd = [c \in Calls |-> NoCmd]
    /\ index = StoredIndex
    /\ sched = NoSched
    /\ ops = NoOps
    /\ \E f \in HistoryFiles : trig = [NoTrig EXCEPT !.file = f]

TriggerSpec == TriggerInit /\ [][TriggerNext]_vars

\* DataManager over a data directory without an index file
IndexInit ==
    /\ input = NoArgs
    /\ output = NoResult
    /\ exists = {}
    /\ db = [p \in Paths |-> NoStore]
    /\ dbPath = "null"
    /\ pc = [c \in Calls |-> "idle"]
    /\ token = [c \in Calls |-> NoToken]
    /\ path = [c \in Calls |-> "null"]
    /\ finalB64 = [c \in Calls |-> <<>>]
    /\ probe = [c \in Calls |-> 0]
    /\ seen = [c \in Calls |-> NoSeen]
    /\ invoked = 0
    /\ cmd = [c \in Calls |-> NoCmd]
    /\ index = DefaultIndex
    /\ sched = NoSched
    /\ trig = NoTrig
    /\ ops = NoOps

IndexSpec == IndexInit /\ [][IndexNext]_vars

(***************************************************************************)
(* Properties of ProtoUtils                                                *)
(***************************************************************************)
Removed == output.done /\ input.op = "removeField"
Built == output.done /\ input.op = "createOAuthField"

\* C1: removing a field number that no top-level field of a well-formed
\* buffer carries returns the buffer byte for byte.
C1_RemoveAbsentIsIdentity ==
    (Removed /\ WellFormed(input.buffer) /\ input.n \notin FieldNums(input.buffer))
        => (~output.threw /\ output.buf = input.buffer)

C1_Witness ==
    /\ Removed
    /\ WellFormed(input.buffer)
    /\ Len(RefScan(input.buffer).fields) = 3
    /\ input.n = 6
    /\ FieldNums(input.buffer) = {1, 9, 16}
    /\ output.buf = input.buffer

\* C3: on a well-formed buffer removeField returns the spans of the fields
\* whose number differs from the target, in their original order, and drops
\* every occurrence of the target whatever its wire type; the output is
\* shorter than the input by the summed spans of the dropped fields.
C3_RemoveKeepsExactlyOthers ==
    (Removed /\ WellFormed(input.buffer))
        => /\ ~output.threw
           /\ output.buf = KeptSpans(input.buffer, RefScan(input.buffer).fields, input.n)
           /\ Len(output.buf) = Len(input.buffer)
                                  - DroppedLen(RefScan(input.buffer).fields, input.n)

C3_Witness ==
    /\ Removed
    /\ input.buffer = <<50, 2, 8, 1>> \o <<74, 2, 50, 0>> \o <<53, 1, 2, 3, 4>>
    /\ input.n = 6
    /\ output.buf = <<74, 2, 50, 0>>

\* C5: removeField fails on a buffer whose first malformed field declares an
\* extent (8 bytes, 4 bytes, or its length prefix) that runs past the end.
C5_TruncatedFieldFails ==
    (Removed /\ RefScan(input.buffer).err = "TruncatedBuffer") => output.threw

\* C6: readVarint fails when no byte at or after the offset has the
\* continuation bit clear.
C6_UnterminatedVarintFails ==
    (output.done /\ input.op = "readVarint"
        /\ FirstTerminator(input.buffer, input.n) < 0)
        => output.threw

\* C7: readVarint(encodeVarint(v), 0) returns v and the length of the encoding.
C7_VarintRoundTrip ==
    (output.done /\ input.op = "encodeVarint")
        => (output.value = input.value /\ output.newOffset = Len(output.buf))

C7_Witness ==
    /\ output.done
    /\ input.op = "encodeVarint"
    /\ input.value = [hi |-> 2 ^ 15, lo |-> 0]
    /\ Len(output.buf) = 6
    /\ output.value = input.value

\* the payload of the single outer field of a built credential field
OAuthInfo(F) == Payload(F, RefScan(F).fields[1])

SubNums(F) ==
    LET sub == RefScan(OAuthInfo(F)).fields
    IN  [i \in 1 .. Len(sub) |-> sub[i].num]

SubPayload(F, i) ==
    LET info == OAuthInfo(F)
    IN  Payload(info, RefScan(info).fields[i])

\* bytes is a single Varint field numbered 1 that carries value v
IsExpiryMessage(bytes, v) ==
    LET scan == RefScan(bytes)
    IN  /\ scan.err = "none"
        /\ Len(scan.fields) = 1
        /\ scan.fields[1].num = 1
        /\ scan.fields[1].wt = 0
        /\ StrictVarint(bytes, scan.fields[1].body).value = v

\* C8: with non-empty access and refresh tokens the built payload scans as
\* sub-fields 1, 2, 3, 4 in that order, all length-delimited, carrying the
\* access token, "Bearer", the refresh token and a nested varint field 1
\* equal to the expiry.
C8_FourSubFields ==
    (Built /\ Truthy(input.accessToken) /\ Truthy(input.refreshToken))
        => LET F == output.buf
               outer == RefScan(F)
               info == Payload(F, outer.fields[1])
               inner == RefScan(info)
               sub == inner.fields
           IN  /\ outer.err = "none"
               /\ Len(outer.fields) = 1
               /\ inner.err = "none"
               /\ [i \in 1 .. Len(sub) |-> sub[i].num] = <<1, 2, 3, 4>>
               /\ \A i \in 1 .. 4 : sub[i].wt = 2
               /\ Payload(info, sub[1]) = Utf8(input.accessToken.str)
               /\ Payload(info, sub[2]) = <<66, 101, 97, 114, 101, 114>>
               /\ Payload(info, sub[3]) = Utf8(input.refreshToken.str)
               /\ IsExpiryMessage(Payload(info, sub[4]), input.value)

C8_Witness ==
    /\ Built
    /\ input.accessToken = Str(<<65>>)
    /\ input.refreshToken = Str(<<82>>)
    /\ input.value = Big(1000)
    /\ output.buf = <<50, 19, 10, 1, 65, 18, 6, 66, 101, 97, 114, 101, 114,
                      26, 1, 82, 34, 3, 8, 232, 7>>

\* C9: the built payload has sub-field 1 exactly when an access token is
\* supplied, and always has sub-fields 2, 3 and 4, once each, ascending.
C9_SubFieldPresence ==
    Built
        => SubNums(output.buf)
             = (IF input.accessToken.defined THEN <<1>> ELSE <<>>) \o <<2, 3, 4>>

\* C10: the built bytes are one well-formed length-delimited field 6 that
\* spans the whole result, and every nested length prefix equals the size
\* of its own payload (the payload and the expiry message scan to their ends).
C10_BuiltFieldWellFormed ==
    Built
        => LET F == output.buf
               outer == RefScan(F)
               info == Payload(F, outer.fields[1])
               inner == RefScan(info)
               sub == inner.fields
           IN  /\ outer.err = "none"
               /\ Len(outer.fields) = 1
               /\ outer.fields[1].num = 6
               /\ outer.fields[1].wt = 2
               /\ outer.fields[1].start = 0
               /\ outer.fields[1].end = Len(F)
               /\ SubSeq(F, 1, 1) = <<50>>
               /\ inner.err = "none"
               /\ \A i \in 1 .. Len(sub) :
                     /\ sub[i].wt = 2
                     /\ sub[i].num = 4 => WellFormed(Payload(info, sub[i]))

C10_Witness ==
    /\ Built
    /\ input.accessToken = Str(LongToken)
    /\ input.refreshToken = Str(<<8364, 82>>)
    /\ Len(output.buf) > 128
    /\ SubPayload(output.buf, 3) = <<226, 130, 172, 82>>

(***************************************************************************)
(* Properties of the patch                                                 *)
(***************************************************************************)
\* the buffer the credential row held when call c read it
StoredBuffer(c) ==
    IF seen[c].row.present THEN FromBase64(seen[c].row.text) ELSE <<>>

NewField(c) ==
    createOAuthField(token[c].access_token, token[c].refresh_token,
                     token[c].expires_in)

\* C2: a successful patch of a well-formed stored buffer stores the base64
\* of the fields not numbered 6, in order and byte for byte, followed by the
\* newly built field 6.
C2_PatchKeepsOthersAppendsNew ==
    \A c \in Calls :
        (pc[c] = "done" /\ WellFormed(StoredBuffer(c)))
            => seen[c].wrote =
                 Row(ToBase64(KeptSpans(StoredBuffer(c),
                                        RefScan(StoredBuffer(c)).fields, 6)
                              \o NewField(c)))

\* C4: when the stored buffer reaches, at the top level, a field whose wire
\* type is outside {0, 1, 2, 5}, the patch fails and writes neither key.
C4_UnsupportedWireTypeAborts ==
    \A c \in Calls :
        (pc[c] \notin {"idle", "getDbPath", "read"}
            /\ RefScan(StoredBuffer(c)).err = "UnsupportedWireType")
            => (pc[c] = "failed" /\ ~seen[c].wrote.present)

\* C11: when the credential key has no row, the patch takes the current
\* buffer as empty and does not fail on it: the text it builds, and the row
\* it writes, is the base64 of the new field 6 alone.
C11_AbsentKeyStoresOnlyNewField ==
    \A c \in Calls :
        (seen[c].read /\ ~seen[c].row.present) =>
            /\ seen[c].error # "UnknownWireType"
            /\ finalB64[c] = ToBase64(NewField(c))
            /\ seen[c].wrote.present =>
                  LET scan == RefScan(FromBase64(seen[c].wrote.text))
                  IN  /\ seen[c].wrote.text = ToBase64(NewField(c))
                      /\ scan.err = "none"
                      /\ Len(scan.fields) = 1
                      /\ scan.fields[1].num = 6

C11_Witness ==
    \E c \in Calls :
        /\ pc[c] = "done"
        /\ seen[c].read /\ seen[c].readOk /\ ~seen[c].row.present
        /\ db[path[c]][CredentialKey] = Row(ToBase64(NewField(c)))

\* C12: a call whose read of the credential key failed has failed and has
\* written nothing.
C12_ReadFailureAborts ==
    \A c \in Calls :
        (seen[c].read /\ ~seen[c].readOk) =>
            /\ pc[c] = "failed"
            /\ ~seen[c].wrote.present

\* C13: a step changes a row only under the credential key or the
\* onboarding key, and only in the store of a call in progress.
C13_OnlyTwoKeysModified ==
    [][\A p \in Paths : \A k \in Keys :
          db'[p][k] # db[p][k] =>
              /\ k \in {CredentialKey, OnboardingKey}
              /\ \E c \in Calls : path[c] = p]_vars

C13_Witness ==
    \E c \in Calls :
        /\ pc[c] = "done"
        /\ db[path[c]][CredentialKey] # seen[c].row
        /\ db[path[c]][OnboardingKey] = Row(TrueText)
        /\ db[path[c]][OtherKey] = Row(<<120>>)

\* C14: the onboarding key is written, with the text true, only by a call
\* whose credential write succeeded; a call whose credential write failed
\* has failed without reaching step 6; a call is done only after both writes.
C14_SentinelAfterCredential ==
    /\ \A p \in Paths : db[p][OnboardingKey] \in {NoRow, Row(TrueText)}
    /\ \A c \in Calls :
          /\ (pc[c] \in {"write2", "done"} \/ seen[c].error = "OnboardingWrite")
                => seen[c].wrote.present
          /\ seen[c].error = "CredentialWrite" =>
                pc[c] = "failed" /\ ~seen[c].wrote.present
          /\ pc[c] = "done" =>
                /\ seen[c].wrote.present
                /\ db[path[c]][OnboardingKey] = Row(TrueText)

C14_Witness ==
    \E c \in Calls :
        /\ pc[c] = "done"
        /\ seen[c].wrote = Row(finalB64[c])
        /\ db[path[c]][OnboardingKey] = Row(TrueText)

\* C15: the bytes of encodeVarint(v) carry the 7-bit groups of v low-order
\* first, every byte but the last has bit 0x80 set and the last has it clear,
\* and the last group is zero only in the one-byte encoding of 0.
C15_VarintEncodingMinimal ==
    (output.done /\ input.op = "encodeVarint") =>
        LET b == output.buf
            n == Len(b)
        IN  /\ n >= 1
            /\ \A i \in 1 .. n - 1 : b[i] \in 128 .. 255
            /\ b[n] \in 0 .. 127
            /\ GroupsValue(b, 0, n - 1) = input.value
            /\ b[n] = 0 => (n = 1 /\ input.value = Big(0))

C15_Witness ==
    /\ output.done
    /\ input.op = "encodeVarint"
    /\ input.value = Big(16384)
    /\ output.buf = <<128, 128, 1>>

\* the documented search order, and the path it selects among the files E
RefOrder == <<"resolved", "Antigravity", "Cursor", "Code", "config">>

RefResolve(E) ==
    LET found == {i \in 1 .. Len(RefOrder) : RefOrder[i] \in E}
    IN  IF found = {} THEN "null" ELSE RefOrder[MinOf(found)]

\* the step of call c on which getDbPath returns
Resolved(c) ==
    pc[c] \in {"getDbPath", "probe"} /\ pc'[c] \notin {"getDbPath", "probe"}

\* C16 as stated: when getDbPath returns, it returns the derived path if its
\* file exists, else the first candidate whose file exists, and when no file
\* exists the call fails without having read or written the store.
C16_ResolutionOrder ==
    [][\A c \in Calls :
          Resolved(c) =>
              IF RefResolve(exists) = "null"
              THEN /\ pc'[c] = "failed"
                   /\ seen'[c].error = "StoreNotFound"
                   /\ ~seen'[c].read /\ ~seen'[c].wrote.present
              ELSE /\ pc'[c] = "read"
                   /\ path'[c] = RefResolve(exists)]_vars

\* C16 amended: with no path cached, getDbPath probes the documented order
\* one path at a time, moves on only from a path whose file is missing when
\* probed and returns the first one whose file exists when probed; past the
\* last candidate the call fails without having read or written the store.
C16_FirstExistingWhenProbed ==
    [][\A c \in Calls :
          /\ (pc[c] = "getDbPath" /\ pc'[c] # "getDbPath" /\ dbPath = "null") =>
                (pc'[c] = "probe" /\ probe'[c] = 0)
          /\ pc[c] = "probe" =>
                LET p == RefOrder[probe[c] + 1]
                IN  /\ pc'[c] = "read" => (p \in exists /\ path'[c] = p)
                    /\ (pc'[c] = "probe" /\ probe'[c] # probe[c]) =>
                          (p \notin exists /\ probe'[c] = probe[c] + 1)
                    /\ pc'[c] = "failed" =>
                          /\ p \notin exists
                          /\ probe[c] + 1 = Len(RefOrder)
                          /\ seen'[c].error = "StoreNotFound"
                          /\ ~seen'[c].read /\ ~seen'[c].wrote.present
                    /\ pc'[c] \in {"read", "probe", "failed"}]_vars

C16_Witness ==
    \E c \in Calls :
        /\ pc[c] = "read"
        /\ probe[c] = 2
        /\ path[c] = "Cursor"
        /\ exists = {"Cursor", "config"}

\* C17: a command has shown the restart warning, or executed the quit
\* command, only if its injectTokenAndReload went through both writes without
\* an error, and it quits only after the warning; a command whose patch
\* failed shows neither, and has shown the error message when it ends.
C17_RestartOnlyAfterPatch ==
    \A c \in Calls :
        /\ (cmd[c].prompted \/ cmd[c].quit) =>
              /\ pc[c] \in {"restart", "ended"}
              /\ seen[c].error = "none"
              /\ seen[c].read /\ seen[c].wrote.present
        /\ cmd[c].quit => cmd[c].prompted
        /\ seen[c].error # "none" =>
              /\ ~cmd[c].prompted /\ ~cmd[c].quit
              /\ pc[c] \in {"failed", "ended"}
              /\ pc[c] = "ended" => cmd[c].errorShown
        /\ cmd[c].errorShown => seen[c].error # "none"

C17_Witness ==
    \E c \in Calls :
        /\ pc[c] = "ended"
        /\ cmd[c].prompted /\ cmd[c].quit
        /\ seen[c].wrote = Row(finalB64[c])
        /\ db[path[c]][OnboardingKey] = Row(TrueText)

\* C19: a command whose credential write succeeded and whose onboarding
\* write failed ends as after a successful patch: restart warning shown, no
\* error message.
C19_SentinelFailureNonFatal ==
    \A c \in Calls :
        (seen[c].error = "OnboardingWrite" /\ pc[c] = "ended") =>
            /\ seen[c].wrote.present
            /\ cmd[c].prompted
            /\ ~cmd[c].errorShown

\* C20: no two calls are between their read of the credential key and their
\* last write on the same store path.
C20_PatchesSerialized ==
    \A c1 \in Calls : \A c2 \in Calls \ {c1} :
        (pc[c1] \in {"write1", "write2"} /\ pc[c2] \in {"write1", "write2"})
            => path[c1] # path[c2]

\* B is a well-formed buffer with exactly one top-level field 6, which is
\* its last field and is F byte for byte
OneField6Last(B, F) ==
    LET scan == RefScan(B)
        n == Len(scan.fields)
    IN  /\ scan.err = "none"
        /\ n >= 1
        /\ scan.fields[n].num = 6
        /\ Span(B, scan.fields[n]) = F
        /\ \A i \in 1 .. n - 1 : scan.fields[i].num # 6

\* the step on which call c completes a patch of a well-formed stored buffer
Completes(c) ==
    /\ pc[c] = "write2"
    /\ pc'[c] = "done"
    /\ WellFormed(StoredBuffer(c))

\* C18: when a patch of a well-formed stored buffer completes, the stored
\* buffer holds exactly one top-level field 6, last, equal to the field built
\* from that patch's credential; and when the row it found was already the
\* result of a patch with the same credential, the row is as it was found.
C18_ExactlyOneField6Last ==
    [][\A c \in Calls :
          Completes(c) =>
              LET stored == db'[path[c]][CredentialKey]
              IN  /\ stored.present
                  /\ OneField6Last(FromBase64(stored.text), NewField(c))
                  /\ OneField6Last(StoredBuffer(c), NewField(c))
                        => stored = seen[c].row]_vars

\* C21: an iteration of removeField's loop that does not throw leaves the
\* offset at least one byte further on, so the loop makes at most as many
\* iterations as the buffer has bytes.
C21_ScanMovesForward ==
    [][(input.op = "removeField" /\ ~output.done /\ ~output'.done) =>
          /\ output'.newOffset >= output.newOffset + 1
          /\ Num(output'.value) = Num(output.value) + 1
          /\ Num(output'.value) <= Len(input.buffer)]_vars

C21_Witness ==
    /\ input.op = "removeField"
    /\ output.done /\ ~output.threw
    /\ Num(output.value) = 3
    /\ output.newOffset > Len(input.buffer)

\* C22: once a path is cached the cache keeps it, and every resolution that
\* returns from then on returns that path, whatever files exist; a
\* resolution that fails leaves the cache as it was.
C22_CachedPathIsKept ==
    [][/\ dbPath # "null" => dbPath' = dbPath
       /\ \A c \in Calls :
             /\ (Resolved(c) /\ dbPath # "null") =>
                   (pc'[c] = "read" /\ path'[c] = dbPath)
             /\ (Resolved(c) /\ pc'[c] = "failed") => dbPath' = dbPath]_vars

\* C23: SchedulerService has at most one pending timer.
C23_AtMostOneTimer == Cardinality(sched.live) <= 1

\* C24: after stop() has returned, and until start() or setSchedule() is
\* called, no timer is pending (and so no call of onTrigger can begin, as
\* only an expiring timer begins one).
C24_NothingAfterStop == sched.stopped => sched.live = {}
(***************************************************************************)
(* Properties of TriggerService                                            *)
(***************************************************************************)
NewestFirst(h) == \A i \in 1 .. Len(h) - 1 : h[i] >= h[i + 1]

\* C25: after any sequence of trigger() calls, successful or failing, the
\* in-memory history holds at most MAX_HISTORY_ITEMS records, newest first
C25_HistoryCapped ==
    /\ Len(trig.history) <= MAX_HISTORY_ITEMS
    /\ NewestFirst(trig.history)

\* C30: once trigger() has returned or thrown, its record stays in the
\* in-memory history until clearHistory() is called or the cap cuts it off,
\* whatever the order in which the constructor's load and the trigger
\* complete
C30_RecordSurvivesLoad ==
    \A k \in TriggerCalls :
       (trig.calls[k].pc = "settled" /\ trig.calls[k].rec \in trig.due)
          => trig.calls[k].rec \in RecordsOf(trig.history)


\* C26: when every switchAccount command has ended and none of them patched
\* the credential (no account file, the confirmation declined, or the patch
\* failed), the persisted current_account_id is the one from before the
\* commands
C26_CurrentAccountOnlyWithPatch ==
    (/\ \A c \in Calls : pc[c] \in {"idle", "ended", "rejected"}
     /\ \A c \in Calls : ~seen[c].wrote.present)
       => index.current_account_id = StoredIndex.current_account_id

(***************************************************************************)
(* Properties of the account index                                         *)
(***************************************************************************)
IndexIds(ix) == {ix.accounts[i].id : i \in DOMAIN ix.accounts}

\* C27: after any logins, switchAccount commands and removeSession calls,
\* current_account_id is unset or the id of an entry of the index
C27_CurrentAccountIsIndexed ==
    \/ index.current_account_id = "undefined"
    \/ index.current_account_id \in IndexIds(index)

\* C28: after any addToIndex calls from an empty index, no two entries of
\* the index have the same email address
C28_EmailsDistinct ==
    \A i, j \in DOMAIN index.accounts :
       i # j => index.accounts[i].email # index.accounts[j].email

\* C29: the save of addToIndex(account) leaves in the persisted index every
\* entry whose id and email both differ from the account's, and leaves
\* current_account_id as it is, also after a failed read and under
\* interleaving
C29_AddToIndexKeepsTheRest ==
    [][\A o \in Ops :
          (ops[o].pc = "addSave" /\ ops'[o].pc = "checkCurrent") =>
             /\ index'.current_account_id = index.current_account_id
             /\ \A i \in DOMAIN index.accounts :
                   (/\ index.accounts[i].id # ops[o].account.id
                    /\ index.accounts[i].email # ops[o].account.email)
                      => \E j \in DOMAIN index'.accounts :
                            index'.accounts[j] = index.accounts[i]]_vars

====
